---- MODULE Spec2Model ----
(***************************************************************************)
(* Model of the authentication state of authok-angular: the AuthState      *)
(* class (auth.state.ts) with its rxjs pipelines, the external             *)
(* AuthokClient as environment, and the part of the AuthService facade     *)
(* that drives AuthState (startup, callback runs, tokens, logout).          *)
(*                                                                         *)
(* Spec         : application code drives AuthState's mutators directly.   *)
(* SpecService  : startup and logout through the AuthService facade.       *)
(* SpecTokens   : startup and token retrieval through the facade.          *)
(* SpecCallback : callback runs, at startup and started by the application.*)
(***************************************************************************)
EXTENDS Naturals, Sequences, FiniteSets

(* ------------------------------ bounds -------------------------------- *)
\* isAuthenticated() calls made by the trigger chains that are subscribed
MaxChecks == 2
\* setIsLoading calls in one run
MaxLoadingEmits == 2
\* callback runs in one run
MaxRuns == 1
\* errors one subscriber of error$ receives
MaxErrors == 2
\* tokens recorded one after the other
MaxTokens == 3
\* createClient calls
MaxClients == 2

(* ------------------------------ values -------------------------------- *)
Tokens == {"t1", "t2"}
Errors == {"e1"}
\* two errors, where it matters which of them came last
TwoErrors == {"e1", "e2"}
NoValue == "none"
\* the error a failing isAuthenticated() promise rejects with
CheckError == "checkError"
\* the subscriptions to isAuthenticatedTrigger$: the single source
\* subscription of isAuthenticated$ (shareReplay) and one subscriber of
\* user$ or idTokenClaims$
Chains == {"auth", "derived"}
Kinds == {"user", "claims"}

\* the query parameters of the location the application is loaded with
Urls == {{}, {"code"}, {"code", "state"}, {"error", "state"}}
\* AuthConfig (skipRedirectCallback, errorPath) with the location: the
\* locations without skipping, and the callback location with skipping and
\* with an error path
Config(url, skip, errorPath) ==
  [url |-> url, skipRedirectCallback |-> skip, errorPath |-> errorPath]
NoConfig == Config({}, FALSE, NoValue)
Configs ==
  {Config(url, FALSE, NoValue) : url \in Urls}
    \cup {Config({"code", "state"}, TRUE, NoValue),
          Config({"code", "state"}, FALSE, "/error"),
          Config({"error", "state"}, FALSE, "/error")}
\* how the client's handleRedirectCallback settles: it resolves to undefined,
\* to {}, to {appState: {}} or to {appState: {target: '/test-route'}}, or throws
Results == {"undefined", "empty", "appState", "appStateTarget"}
Outcomes == Results \cup {"error"}
CallbackError == "callbackError"

VARIABLES
  isLoadingSubject,  \* BehaviorSubject<boolean>: its current value
  accessToken,       \* ReplaySubject<string>(1): the buffered token
  errorSubject,      \* ReplaySubject<Error>(1): the buffered error
  chain,             \* per subscription of isAuthenticatedTrigger$
  isAuthenticated,   \* values emitted by distinctUntilChanged into shareReplay(1)
  authSub,           \* an external subscriber of isAuthenticated$: attached?
  authSeen,          \* the values it received since it attached
  kind,              \* which stream the derived subscriber attached to
  concat,            \* concatMap of user$/idTokenClaims$: active inner (<<>> or one), buffer
  derivedSeen,       \* the values the derived subscriber received
  flagAt,            \* isAuthenticated$ value current at its last receipt (<<>>: none)
  loadingSeen,       \* isLoading$ values seen by a subscriber from construction
  lateLoading,       \* what a subscriber attaching later received at once (<<>>: not attached)
  clientAuth,        \* external client: what isAuthenticated() answers now
  clientLogout,      \* external client: logout() has been invoked
  phase,             \* AuthService startup: NoService/CheckingSession/ProcessingCallback/Loaded/Abandoned
  config,            \* AuthConfig and the location the application was loaded with
  clientCalls,       \* external client: invocations by the startup sequence
  runs,              \* callback runs that have settled: who started it, how the exchange ended
  navigated,         \* navigator: the targets navigateByUrl was invoked with
  caller,            \* what the caller of the last token retrieval received (<<>>: none)
  destroyed,         \* AuthService: ngOnDestroy has run
  appStates,         \* values emitted on appState$ (the last one is the replay buffer)
  lateAppState,      \* what a subscriber of appState$ attaching later received at once
  errorSub,          \* subscribers of error$: what the first has received so far, and
                     \* what one attaching later received at once (<<>>: not subscribed)
  other,             \* a second AuthState instance: its subjects and its trigger chain
  popup,             \* loginWithPopup: "none", "open" (called, not resolved) or "resolved"
  atLoaded,          \* what the subscriber of isLoading$ found when the startup's false arrived
  clientConfig,      \* AuthClientConfig: <<>> (nothing supplied) or <<the configuration>>
  created,           \* the createClient calls made: configuration found and outcome
  refreshedEarly,    \* refresh() has been called while no chain was started
  leftWith           \* what isAuthenticated$ replayed when its subscriber left (<<>>: nothing)

vars == <<isLoadingSubject, accessToken, errorSubject, chain, isAuthenticated,
          authSub, authSeen, kind, concat, derivedSeen, flagAt, loadingSeen,
          lateLoading, clientAuth, clientLogout, phase,
          config, clientCalls, runs, navigated, caller,
          destroyed, appStates, lateAppState, errorSub, other, atLoaded,
          popup, clientConfig, created, refreshedEarly, leftWith>>

stateVars == <<isLoadingSubject, accessToken, errorSubject, errorSub, other>>
authOut == <<isAuthenticated, authSub, authSeen>>
derivedOut == <<kind, concat, derivedSeen, flagAt>>
loadingOut == <<loadingSeen, lateLoading>>
clientVars == <<clientAuth, clientLogout>>
appStateOut == <<appStates, lateAppState>>
factoryVars == <<clientConfig, created>>
serviceVars == <<config, clientCalls, runs, navigated, caller, destroyed,
                 appStateOut, atLoaded, popup, factoryVars, refreshedEarly,
                 leftWith>>

Last(s) == s[Len(s)]
RemoveAt(s, i) == SubSeq(s, 1, i - 1) \o SubSeq(s, i + 1, Len(s))

(* --------------------- isAuthenticatedTrigger$ ------------------------ *)
\* a fresh subscription: not subscribed, switchMap not entered, scan seed;
\* fed is the value the chain emitted last, maxFed the newest check emitted
NewChain ==
  [sub |-> FALSE, started |-> FALSE, current |-> NoValue,
   calls |-> 0, pending |-> <<>>, fed |-> <<>>, maxFed |-> 0]

\* this.authokClient.isAuthenticated(): a promise in flight, holding the
\* answer the client had when asked
StartCheck(ch, origin) ==
  [ch EXCEPT !.calls = @ + 1,
             !.pending = Append(@, [id |-> ch.calls + 1, origin |-> origin,
                                    ans |-> clientAuth])]

\* faulty variant: no filter, every recorded token fires
accessTokenTrigger_always(ch, token) ==
  StartCheck([ch EXCEPT !.current = token], "token")

\* scan + filter of accessTokenTrigger$ followed by mergeMap; of the scan's
\* accumulator only `current` is read by the next step
accessTokenTrigger(ch, token) ==
  LET acc == [previous |-> ch.current, current |-> token]
      c == [ch EXCEPT !.current = acc.current]
  IN IF acc.previous # acc.current THEN StartCheck(c, "token") ELSE c

\* faulty variant: accessToken$ is a plain Subject, nothing is replayed
StartChain_noReplay(ch, token) ==
  StartCheck([ch EXCEPT !.started = TRUE], "initial")

\* faulty variant: the merge has no deferred check of the current value
StartChain_noInitial(ch, token) ==
  LET c1 == [ch EXCEPT !.started = TRUE]
  IN IF token # NoValue THEN accessTokenTrigger(c1, token) ELSE c1

\* the inner merge(...) of switchMap is subscribed: the deferred check,
\* then accessTokenTrigger$ (ReplaySubject replays its token), then refresh$
StartChain(ch, token) ==
  LET c1 == StartCheck([ch EXCEPT !.started = TRUE], "initial")
  IN IF token # NoValue THEN accessTokenTrigger(c1, token) ELSE c1

\* faulty variant: every false restarts the chain (no distinctUntilChanged)
OnLoading_restarting(ch, loading, token) ==
  IF ch.sub /\ ~loading THEN StartChain(ch, token) ELSE ch

\* faulty variant: the chain does not wait for loading to end (no filter)
OnLoading_unfiltered(ch, loading, token) ==
  IF ch.sub /\ ~ch.started THEN StartChain(ch, token) ELSE ch

\* isLoading$ delivers `loading` to filter / distinctUntilChanged / switchMap
OnLoading(ch, loading, token) ==
  IF ch.sub /\ ~loading /\ ~ch.started THEN StartChain(ch, token) ELSE ch

\* accessToken$ delivers a token to the chain
OnToken(ch, token) ==
  IF ch.started THEN accessTokenTrigger(ch, token) ELSE ch

\* faulty variant: refresh$ keeps a refresh for a chain that starts later
OnRefresh_buffered(ch) == StartCheck(ch, "refresh")

\* faulty variant: the chain does not listen to refresh$
OnRefresh_ignored(ch) == ch

\* refresh$ delivers to the chain (a Subject: nothing is kept for later)
OnRefresh(ch) ==
  IF ch.started THEN StartCheck(ch, "refresh") ELSE ch

\* accessToken$ delivers the tokens of ts, one after the other
RECURSIVE OnTokens(_, _)
OnTokens(ch, ts) ==
  IF ts = <<>> THEN ch ELSE OnTokens(OnToken(ch, ts[1]), Tail(ts))

WithinBound(chs) == chs["auth"].calls + chs["derived"].calls <= MaxChecks

\* new AuthState(authokClient): the subjects of an instance as constructed,
\* with its isAuthenticatedTrigger$ chain (nobody subscribed)
NewState ==
  [isLoadingSubject |-> TRUE, accessToken |-> NoValue, errorSubject |-> NoValue,
   chain |-> NewChain]

(* -------------------------- AuthState mutators ------------------------ *)
\* faulty variant: one shared trigger evaluation, made for isAuthenticated$
setIsLoading_single(loading) ==
  /\ isLoadingSubject' = loading
  /\ chain' = [chain EXCEPT !["auth"] = OnLoading(@, loading, accessToken)]
  /\ WithinBound(chain')
  /\ Len(loadingSeen) <= MaxLoadingEmits
  /\ loadingSeen' = Append(loadingSeen, loading)
  /\ UNCHANGED <<accessToken, errorSubject, errorSub, lateLoading, other>>

\* faulty variant: the value is not put on the subject
setIsLoading_stuck(loading) ==
  UNCHANGED <<isLoadingSubject, chain, loadingSeen, accessToken, errorSubject,
              errorSub, lateLoading, other>>

\* setIsLoading(isLoading): isLoadingSubject$.next(isLoading)
setIsLoading(loading) ==
  /\ isLoadingSubject' = loading
  /\ chain' = [c \in Chains |-> OnLoading(chain[c], loading, accessToken)]
  /\ WithinBound(chain')
  /\ Len(loadingSeen) <= MaxLoadingEmits
  /\ loadingSeen' = Append(loadingSeen, loading)
  /\ UNCHANGED <<accessToken, errorSubject, errorSub, lateLoading, other>>

\* errorSubject$.next(error) reaches the subscriber of error$, if there is one
Deliver(sub, error) ==
  [sub EXCEPT !.first = IF @ = <<>> THEN @ ELSE <<Append(@[1], error)>>]

\* the values a subscriber of error$ has received stay within the bound
ErrorsWithinBound ==
  errorSub.first # <<>> => Len(errorSub.first[1]) < MaxErrors

\* faulty variant: the error is dropped, then the loading flag is set
setErrorThenLoading_dropped(error, loading) == setIsLoading(loading)

\* setError(error) directly followed by setIsLoading(loading), as one step
setErrorThenLoading(error, loading) ==
  /\ ErrorsWithinBound
  /\ errorSubject' = error
  /\ errorSub' = Deliver(errorSub, error)
  /\ isLoadingSubject' = loading
  /\ chain' = [c \in Chains |-> OnLoading(chain[c], loading, accessToken)]
  /\ WithinBound(chain')
  /\ Len(loadingSeen) <= MaxLoadingEmits
  /\ loadingSeen' = Append(loadingSeen, loading)
  /\ UNCHANGED <<accessToken, lateLoading, other>>

\* faulty variant: a refresh that puts the state back into loading
refresh_reloading ==
  /\ chain' = [c \in Chains |-> OnRefresh(chain[c])]
  /\ WithinBound(chain')
  /\ isLoadingSubject' = TRUE
  /\ UNCHANGED <<accessToken, errorSubject, errorSub, loadingOut, other>>

\* refresh(): refresh$.next()
refresh ==
  /\ chain' = [c \in Chains |-> OnRefresh(chain[c])]
  /\ WithinBound(chain')
  /\ UNCHANGED <<isLoadingSubject, accessToken, errorSubject, errorSub, loadingOut,
                 other>>

\* faulty variant: accessToken$ is one subject shared by all instances
setAccessToken_shared(token) ==
  /\ accessToken' = token
  /\ chain' = [c \in Chains |-> OnToken(chain[c], token)]
  /\ WithinBound(chain')
  /\ other' = [other EXCEPT !.accessToken = token]
  /\ UNCHANGED <<isLoadingSubject, errorSubject, errorSub, loadingOut>>

\* setAccessToken(accessToken): accessToken$.next(accessToken)
setAccessToken(token) ==
  /\ accessToken' = token
  /\ chain' = [c \in Chains |-> OnToken(chain[c], token)]
  /\ WithinBound(chain')
  /\ UNCHANGED <<isLoadingSubject, errorSubject, errorSub, loadingOut, other>>

\* faulty variant: recording an error also asks for a re-evaluation
setError_refreshing(error) ==
  /\ ErrorsWithinBound
  /\ errorSubject' = error
  /\ errorSub' = Deliver(errorSub, error)
  /\ chain' = [c \in Chains |-> OnRefresh(chain[c])]
  /\ WithinBound(chain')
  /\ UNCHANGED <<isLoadingSubject, accessToken, loadingOut, other>>

\* faulty variant: the error is not put on the subject
setError_dropped(error) ==
  UNCHANGED <<errorSubject, errorSub, isLoadingSubject, accessToken, chain,
              loadingOut, other>>

\* setError(error): errorSubject$.next(error)
setError(error) ==
  /\ ErrorsWithinBound
  /\ errorSubject' = error
  /\ errorSub' = Deliver(errorSub, error)
  /\ UNCHANGED <<isLoadingSubject, accessToken, chain, loadingOut, other>>

\* faulty variant: a subject with an initial value, handed to new subscribers
errorStream_initial == <<errorSubject>>

\* error$ = errorSubject$.asObservable(), a ReplaySubject(1): what a new
\* subscriber receives at once
errorStream == IF errorSubject = NoValue THEN <<>> ELSE <<errorSubject>>

\* faulty variant: a subject that hands new subscribers its initial value
isLoading_initial == <<TRUE>>

\* isLoading$ = isLoadingSubject$.asObservable(): what a new subscriber
\* receives at once
isLoading == <<isLoadingSubject>>

(* ----------------------------- Init ----------------------------------- *)
InitState ==
  /\ isLoadingSubject = TRUE
  /\ accessToken = NoValue
  /\ errorSubject = NoValue
  /\ chain = [c \in Chains |-> NewChain]
  /\ isAuthenticated = <<>>
  /\ authSub = FALSE
  /\ authSeen = <<>>
  /\ kind = NoValue
  /\ concat = [active |-> <<>>, buffer |-> <<>>]
  /\ derivedSeen = <<>>
  /\ flagAt = <<>>
  /\ loadingSeen = <<TRUE>>
  /\ lateLoading = <<>>
  /\ clientAuth \in BOOLEAN
  /\ clientLogout = FALSE
  /\ destroyed = FALSE
  /\ appStates = <<>>
  /\ lateAppState = <<>>
  /\ errorSub = [first |-> <<>>, late |-> <<>>]
  /\ other = NewState
  /\ atLoaded = <<>>
  /\ popup = "none"
  /\ clientConfig = <<>>
  /\ created = <<>>
  /\ refreshedEarly = FALSE
  /\ leftWith = <<>>

\* an AuthState on its own
Init ==
  /\ InitState
  /\ phase = "NoService"
  /\ config = NoConfig
  /\ clientCalls = [handleRedirectCallback |-> 0, checkSession |-> 0]
  /\ runs = <<>>
  /\ navigated = <<>>
  /\ caller = <<>>

\* faulty variant: an error response is not taken for a callback
shouldHandleCallback_codeOnly(cfg) ==
  /\ ~cfg.skipRedirectCallback
  /\ "code" \in cfg.url
  /\ "state" \in cfg.url

\* faulty variant: skipRedirectCallback is not consulted
shouldHandleCallback_noSkip(cfg) ==
  /\ ("code" \in cfg.url \/ "error" \in cfg.url)
  /\ "state" \in cfg.url

\* the location carries code and state, or error and state, and the
\* configuration does not skip the callback
shouldHandleCallback(cfg) ==
  /\ ~cfg.skipRedirectCallback
  /\ ("code" \in cfg.url \/ "error" \in cfg.url)
  /\ "state" \in cfg.url

\* an AuthState with its AuthService constructed: the startup sequence has
\* invoked the client's handleRedirectCallback or its checkSession
InitService ==
  /\ InitState
  /\ config \in Configs
  /\ phase = IF shouldHandleCallback(config)
             THEN "ProcessingCallback" ELSE "CheckingSession"
  /\ clientCalls = IF shouldHandleCallback(config)
                   THEN [handleRedirectCallback |-> 1, checkSession |-> 0]
                   ELSE [handleRedirectCallback |-> 0, checkSession |-> 1]
  /\ runs = <<>>
  /\ navigated = <<>>
  /\ caller = <<>>

(* ---------------------------- isAuthenticated$ ------------------------ *)
\* faulty variant: no deduplication
distinctUntilChanged_off(emitted, v) == Append(emitted, v)

\* faulty variant: a comparator that finds every value equal to the previous one
distinctUntilChanged_allEqual(emitted, v) ==
  IF emitted # <<>> THEN emitted ELSE <<v>>

\* distinctUntilChanged(): what has been emitted after the trigger feeds v
distinctUntilChanged(emitted, v) ==
  IF emitted # <<>> /\ Last(emitted) = v THEN emitted ELSE Append(emitted, v)

\* faulty variant: share() without a replay buffer
shareReplay_none(emitted) == <<>>

\* shareReplay(1): what a new subscriber receives at once
shareReplay(emitted) ==
  IF emitted = <<>> THEN <<>> ELSE <<Last(emitted)>>

\* the trigger feeds v into isAuthenticated$
FeedAuth(v) ==
  /\ isAuthenticated' = distinctUntilChanged(isAuthenticated, v)
  /\ authSeen' = IF authSub /\ isAuthenticated' # isAuthenticated
                 THEN Append(authSeen, v) ELSE authSeen
  /\ UNCHANGED authSub

(* ------------------------ user$ / idTokenClaims$ ---------------------- *)
\* client.getUser() / client.getIdTokenClaims(): what the client holds now
ClientLookup(k) ==
  IF clientAuth THEN (IF k = "user" THEN "profile" ELSE "claims") ELSE "undefined"

\* one value received by the derived subscriber: the value and the trigger
\* evaluation (id, ans) it was computed for
Emission(val, p) == [val |-> val, id |-> p.id, ans |-> p.ans]

\* authenticated ? client.getUser() : of(null)
\* concatMap subscribes the next buffered inner when the active one completes
RECURSIVE Drain(_, _)
Drain(buffer, seen) ==
  IF buffer = <<>> THEN [active |-> <<>>, buffer |-> <<>>, seen |-> seen]
  ELSE LET p == Head(buffer)
       IN IF p.ans
          THEN [active |-> <<[id |-> p.id, ans |-> p.ans, val |-> ClientLookup(kind)]>>,
                buffer |-> Tail(buffer), seen |-> seen]
          ELSE Drain(Tail(buffer), Append(seen, Emission("null", p)))

\* faulty variant: an answer equal to the previous one is dropped
concatMap_distinct(p) ==
  IF chain["derived"].fed # <<>> /\ chain["derived"].fed[1].ans = p.ans
  THEN [active |-> concat.active, buffer |-> concat.buffer, seen |-> derivedSeen]
  ELSE IF concat.active # <<>>
       THEN [active |-> concat.active, buffer |-> Append(concat.buffer, p),
             seen |-> derivedSeen]
       ELSE Drain(<<p>>, derivedSeen)

\* faulty variant: the client is asked whatever the answer was
concatMap_always(p) ==
  IF concat.active # <<>>
  THEN [active |-> concat.active, buffer |-> Append(concat.buffer, p),
        seen |-> derivedSeen]
  ELSE [active |-> <<[id |-> p.id, ans |-> p.ans, val |-> ClientLookup(kind)]>>,
        buffer |-> <<>>, seen |-> derivedSeen]

\* faulty variant: mergeMap, the inner of a new answer is subscribed at once
concatMap_eager(p) ==
  IF p.ans
  THEN [active |-> <<[id |-> p.id, ans |-> p.ans, val |-> ClientLookup(kind)]>>,
        buffer |-> concat.buffer, seen |-> derivedSeen]
  ELSE [active |-> concat.active, buffer |-> concat.buffer,
        seen |-> Append(derivedSeen, Emission("null", p))]

\* concatMap receives the trigger's value p
concatMap(p) ==
  IF concat.active # <<>>
  THEN [active |-> concat.active, buffer |-> Append(concat.buffer, p),
        seen |-> derivedSeen]
  ELSE Drain(<<p>>, derivedSeen)

FeedDerived(p) ==
  LET r == concatMap(p)
  IN /\ concat' = [active |-> r.active, buffer |-> r.buffer]
     /\ derivedSeen' = r.seen
     /\ flagAt' = IF r.seen # derivedSeen THEN shareReplay(isAuthenticated) ELSE flagAt
     /\ UNCHANGED kind

(* ------------------------------ actions ------------------------------- *)
\* application code calls the mutators of AuthState
SetIsLoading ==
  \E loading \in BOOLEAN :
    /\ setIsLoading(loading)
    /\ UNCHANGED <<authOut, derivedOut, clientVars, phase, serviceVars>>

Refresh ==
  /\ refresh
  /\ UNCHANGED <<authOut, derivedOut, clientVars, phase, serviceVars>>

SetAccessToken ==
  \E token \in Tokens :
    /\ setAccessToken(token)
    /\ UNCHANGED <<authOut, derivedOut, clientVars, phase, serviceVars>>

SetError ==
  \E error \in Errors :
    /\ setError(error)
    /\ UNCHANGED <<authOut, derivedOut, clientVars, phase, serviceVars>>

\* refresh() called while no chain is started: loading, or nobody subscribed
EarlyRefresh ==
  /\ \A c \in Chains : ~chain[c].started
  /\ refresh
  /\ refreshedEarly' = TRUE
  /\ UNCHANGED <<authOut, derivedOut, clientVars, phase, config, clientCalls,
                 runs, navigated, caller, destroyed, appStateOut, atLoaded,
                 popup, factoryVars, leftWith>>

\* setError with one of two errors
SetEitherError ==
  \E error \in TwoErrors :
    /\ setError(error)
    /\ UNCHANGED <<authOut, derivedOut, clientVars, phase, serviceVars>>

\* error$.subscribe(...): the first subscriber, receiving what is replayed
\* and every error from then on
SubscribeError ==
  /\ errorSub.first = <<>>
  /\ errorSub' = [errorSub EXCEPT !.first = <<errorStream>>]
  /\ UNCHANGED <<isLoadingSubject, accessToken, errorSubject, other, chain,
                 authOut, derivedOut, loadingOut, clientVars, phase, serviceVars>>

\* error$.subscribe(...) by a subscriber attaching later: what it receives
\* at once, and how many values the first subscriber had received by then
LateSubscribeError ==
  /\ errorSub.first # <<>>
  /\ errorSub.late = <<>>
  /\ errorSub' = [errorSub EXCEPT !.late =
                    <<[val |-> errorStream, at |-> Len(errorSub.first[1])]>>]
  /\ UNCHANGED <<isLoadingSubject, accessToken, errorSubject, other, chain,
                 authOut, derivedOut, loadingOut, clientVars, phase, serviceVars>>

\* isAuthenticated$.subscribe(...): shareReplay subscribes its source once
SubscribeAuth ==
  /\ ~authSub
  /\ authSub' = TRUE
  /\ authSeen' = shareReplay(isAuthenticated)
  /\ chain' = [chain EXCEPT !["auth"] =
                 IF @.sub THEN @
                 ELSE OnLoading([@ EXCEPT !.sub = TRUE], isLoadingSubject, accessToken)]
  /\ WithinBound(chain')
  /\ UNCHANGED <<stateVars, isAuthenticated, derivedOut, loadingOut, clientVars, phase, serviceVars>>

\* the subscriber leaves; shareReplay(1) keeps its source subscription
UnsubscribeAuth ==
  /\ authSub
  /\ authSub' = FALSE
  /\ authSeen' = <<>>
  /\ UNCHANGED <<stateVars, chain, isAuthenticated, derivedOut, loadingOut,
                 clientVars, phase, serviceVars>>

\* faulty variant: shareReplay with refCount, the source is dropped with
\* the last subscriber
LeaveAuth_refCount ==
  /\ authSub
  /\ authSub' = FALSE
  /\ authSeen' = <<>>
  /\ leftWith' = shareReplay(isAuthenticated)
  /\ chain' = [chain EXCEPT !["auth"] = NewChain]
  /\ isAuthenticated' = <<>>
  /\ UNCHANGED <<stateVars, derivedOut, loadingOut, clientVars, phase, config,
                 clientCalls, runs, navigated, caller, destroyed, appStateOut,
                 atLoaded, popup, factoryVars, refreshedEarly>>

\* the only subscriber of isAuthenticated$ leaves, holding the value that
\* is replayed at that time; shareReplay(1) keeps its source subscription
LeaveAuth ==
  /\ authSub
  /\ authSub' = FALSE
  /\ authSeen' = <<>>
  /\ leftWith' = shareReplay(isAuthenticated)
  /\ UNCHANGED <<stateVars, chain, isAuthenticated, derivedOut, loadingOut,
                 clientVars, phase, config, clientCalls, runs, navigated, caller,
                 destroyed, appStateOut, atLoaded, popup, factoryVars,
                 refreshedEarly>>

\* user$.subscribe(...) or idTokenClaims$.subscribe(...): a trigger chain of its own
SubscribeDerived ==
  \E k \in Kinds :
    /\ kind = NoValue
    /\ kind' = k
    /\ chain' = [chain EXCEPT !["derived"] =
                   OnLoading([@ EXCEPT !.sub = TRUE], isLoadingSubject, accessToken)]
    /\ WithinBound(chain')
    /\ UNCHANGED <<stateVars, authOut, concat, derivedSeen, flagAt, loadingOut,
                   clientVars, phase, serviceVars>>

\* isLoading$.subscribe(...) after construction: the value received at once,
\* and how many values the first subscriber had seen by then
SubscribeLoading ==
  /\ lateLoading = <<>>
  /\ lateLoading' = <<[val |-> isLoading[1], at |-> Len(loadingSeen)]>>
  /\ UNCHANGED <<stateVars, chain, authOut, derivedOut, loadingSeen,
                 clientVars, phase, serviceVars>>

\* an isAuthenticated() promise of the isAuthenticated$ chain resolves
\* (mergeMap: whichever promise resolves first)
ResolveAuthCheck ==
  \E i \in 1..Len(chain["auth"].pending) :
    LET p == chain["auth"].pending[i]
    IN /\ chain' = [chain EXCEPT !["auth"].pending = RemoveAt(@, i),
                                 !["auth"].fed = <<p>>,
                                 !["auth"].maxFed = IF p.id > @ THEN p.id ELSE @]
       /\ FeedAuth(p.ans)
       /\ UNCHANGED <<stateVars, derivedOut, loadingOut, clientVars, phase, serviceVars>>

\* an isAuthenticated() promise of the user$/idTokenClaims$ chain resolves
ResolveDerivedCheck ==
  \E i \in 1..Len(chain["derived"].pending) :
    LET p == chain["derived"].pending[i]
    IN /\ chain' = [chain EXCEPT !["derived"].pending = RemoveAt(@, i),
                                 !["derived"].fed = <<p>>,
                                 !["derived"].maxFed = IF p.id > @ THEN p.id ELSE @]
       /\ FeedDerived(p)
       /\ UNCHANGED <<stateVars, authOut, loadingOut, clientVars, phase, serviceVars>>

\* an isAuthenticated() promise of the isAuthenticated$ chain rejects: no
\* operator of the chain catches the error, so mergeMap, merge and switchMap
\* pass it on, the subscribers of isAuthenticated$ receive it as their last
\* notification, and shareReplay drops its buffer and its source subscription
\* (the next subscriber starts a new chain). Nothing reaches errorSubject$.
RejectAuthCheck ==
  /\ chain["auth"].pending # <<>>
  /\ chain' = [chain EXCEPT !["auth"] = NewChain]
  /\ isAuthenticated' = <<>>
  /\ authSub' = FALSE
  /\ authSeen' = <<>>
  /\ UNCHANGED <<stateVars, derivedOut, loadingOut, clientVars, phase, serviceVars>>

\* an isAuthenticated() promise of the user$/idTokenClaims$ chain rejects:
\* the subscriber receives the error and its chain and concatMap end
RejectDerivedCheck ==
  /\ chain["derived"].pending # <<>>
  /\ chain' = [chain EXCEPT !["derived"] = NewChain]
  /\ kind' = NoValue
  /\ concat' = [active |-> <<>>, buffer |-> <<>>]
  /\ derivedSeen' = <<>>
  /\ flagAt' = <<>>
  /\ UNCHANGED <<stateVars, authOut, loadingOut, clientVars, phase, serviceVars>>

\* the getUser() / getIdTokenClaims() promise of concatMap resolves
ResolveLookup ==
  /\ concat.active # <<>>
  /\ LET r == Drain(concat.buffer,
                    Append(derivedSeen, Emission(concat.active[1].val, concat.active[1])))
     IN /\ concat' = [active |-> r.active, buffer |-> r.buffer]
        /\ derivedSeen' = r.seen
  /\ flagAt' = shareReplay(isAuthenticated)
  /\ UNCHANGED <<stateVars, chain, authOut, kind, loadingOut, clientVars, phase, serviceVars>>

\* the external client's session changes (login, logout, expiry elsewhere)
ClientChange ==
  /\ clientAuth' = ~clientAuth
  /\ UNCHANGED <<stateVars, chain, authOut, derivedOut, loadingOut,
                 clientLogout, phase, serviceVars>>

(* ------------------------ a second AuthState -------------------------- *)
\* what an operation on the second instance leaves alone: the first one
firstInstance ==
  <<isLoadingSubject, accessToken, errorSubject, errorSub, chain, authOut,
    derivedOut, loadingOut>>

\* the isAuthenticated() calls of the second instance stay within the bound
OtherWithinBound(inst) == inst.chain.calls <= MaxChecks

\* isAuthenticated$.subscribe(...) on the second instance
OtherSubscribe ==
  /\ ~other.chain.sub
  /\ other' = [other EXCEPT !.chain =
                 OnLoading([@ EXCEPT !.sub = TRUE], other.isLoadingSubject,
                           other.accessToken)]
  /\ OtherWithinBound(other')
  /\ UNCHANGED <<firstInstance, clientVars, phase, serviceVars>>

\* setIsLoading on the second instance
OtherSetIsLoading ==
  \E loading \in BOOLEAN :
    /\ other' = [other EXCEPT !.isLoadingSubject = loading,
                              !.chain = OnLoading(@, loading, other.accessToken)]
    /\ OtherWithinBound(other')
    /\ UNCHANGED <<firstInstance, clientVars, phase, serviceVars>>

\* refresh on the second instance
OtherRefresh ==
  /\ other.chain.started
  /\ other' = [other EXCEPT !.chain = OnRefresh(@)]
  /\ OtherWithinBound(other')
  /\ UNCHANGED <<firstInstance, clientVars, phase, serviceVars>>

\* setAccessToken on the second instance
OtherSetAccessToken ==
  \E token \in Tokens :
    /\ other' = [other EXCEPT !.accessToken = token,
                              !.chain = OnToken(@, token)]
    /\ OtherWithinBound(other')
    /\ UNCHANGED <<firstInstance, clientVars, phase, serviceVars>>

\* setError on the second instance
OtherSetError ==
  \E error \in Errors :
    /\ other' = [other EXCEPT !.errorSubject = error]
    /\ UNCHANGED <<firstInstance, clientVars, phase, serviceVars>>

(* -------------------------- AuthokClientFactory ----------------------- *)
\* window.location.origin
Origin == "origin"

ConfigError == "Configuration must be specified"

\* the configurations an application supplies
ClientConfigs ==
  [domain : {"test.domain.com"}, clientId : {"abc123"},
   redirectUri : {NoValue, "uri"}, maxAge : {NoValue},
   httpInterceptor : {NoValue, "allowedList"}]

\* faulty variant: without a configuration a client is built from defaults
createClient_lenient(configFactory) ==
  [thrown |-> NoValue,
   client |-> <<[redirect_uri |-> Origin, client_id |-> NoValue,
                 max_age |-> NoValue, domain |-> NoValue]>>]

\* createClient(configFactory): throws when configFactory.get() is missing,
\* else new AuthokClient({redirect_uri, client_id, max_age, ...rest});
\* httpInterceptor is not handed to the client
createClient(configFactory) ==
  IF configFactory = <<>>
  THEN [thrown |-> ConfigError, client |-> <<>>]
  ELSE LET cfg == configFactory[1]
       IN [thrown |-> NoValue,
           client |-> <<[redirect_uri |-> IF cfg.redirectUri = NoValue
                                          THEN Origin ELSE cfg.redirectUri,
                         client_id |-> cfg.clientId,
                         max_age |-> cfg.maxAge,
                         domain |-> cfg.domain]>>]

\* new AuthClientConfig(config) / AuthClientConfig.set(config)
SetClientConfig ==
  \E cfg \in ClientConfigs :
    /\ clientConfig' = <<cfg>>
    /\ UNCHANGED <<stateVars, chain, authOut, derivedOut, loadingOut, clientVars,
                   phase, config, clientCalls, runs, navigated, caller,
                   destroyed, appStateOut, atLoaded, popup, created,
                   refreshedEarly, leftWith>>

\* AuthokClientFactory.createClient(configFactory) is called
CreateClient ==
  /\ Len(created) < MaxClients
  /\ created' = Append(created, [found |-> clientConfig,
                                 outcome |-> createClient(clientConfig)])
  /\ UNCHANGED <<stateVars, chain, authOut, derivedOut, loadingOut, clientVars,
                 phase, config, clientCalls, runs, navigated, caller,
                 destroyed, appStateOut, atLoaded, popup, clientConfig,
                 refreshedEarly, leftWith>>

(* ----------------------------- AuthService ---------------------------- *)
\* faulty variant: the target of the appState is ignored
Target_root(result) == "/"

\* appState?.target ?? '/'
Target(result) == IF result = "appStateTarget" THEN "/test-route" ELSE "/"

\* errorPath || '/'
ErrorTarget(cfg) == IF cfg.errorPath # NoValue THEN cfg.errorPath ELSE "/"

\* faulty variant: no navigation after a failed exchange
navigateAfter_successOnly(outcome) ==
  navigated' = IF outcome = "error" THEN navigated
               ELSE Append(navigated, Target(outcome))

\* the navigation step of a callback run: navigator.navigateByUrl(target)
navigateAfter(outcome) ==
  navigated' = Append(navigated,
                      IF outcome = "error" THEN ErrorTarget(config)
                      ELSE Target(outcome))

\* faulty variant: the appState is not put on the subject
recordAppState_never(outcome) == UNCHANGED appStates

\* if (appState) appStateSubject$.next(appState)
recordAppState(outcome) ==
  appStates' = IF outcome \in {"appState", "appStateTarget"}
               THEN Append(appStates, outcome) ELSE appStates

\* faulty variant: the loading flag is cleared first, the error, the
\* appState and the navigation follow
whenLoaded_first ==
  <<[navigated |-> navigated, error |-> errorSubject,
     appState |-> shareReplay(appStates)]>>

\* the last step of the startup sequence is setIsLoading(false): what its
\* subscriber finds at that moment is what the steps before it left
whenLoaded ==
  <<[navigated |-> navigated', error |-> errorSubject',
     appState |-> shareReplay(appStates')]>>

\* the silent session check of the startup sequence has settled
SessionChecked ==
  /\ phase = "CheckingSession"
  /\ ~destroyed
  /\ phase' = "Loaded"
  /\ setIsLoading(FALSE)
  /\ UNCHANGED <<authOut, derivedOut, clientVars, config, clientCalls, factoryVars, refreshedEarly, leftWith, runs,
                 navigated, caller, destroyed, appStateOut, popup>>
  /\ atLoaded' = whenLoaded

\* the callback exchange of the startup sequence has settled: on failure the
\* error is recorded; then the navigation, then the loading flag is cleared
CallbackProcessed ==
  \E outcome \in Outcomes :
    /\ phase = "ProcessingCallback"
    /\ phase' = "Loaded"
    /\ IF outcome = "error"
       THEN setErrorThenLoading(CallbackError, FALSE)
       ELSE setIsLoading(FALSE)
    /\ ~destroyed
    /\ recordAppState(outcome)
    /\ navigateAfter(outcome)
    /\ runs' = Append(runs, [kind |-> "startup", outcome |-> outcome])
    /\ UNCHANGED <<authOut, derivedOut, clientVars, config, clientCalls, factoryVars, refreshedEarly, leftWith, caller,
                   destroyed, lateAppState, popup>>
    /\ atLoaded' = whenLoaded

\* the startup sequence: the session check or the callback exchange has
\* settled; the loading flag is cleared
StartupSettle == SessionChecked \/ CallbackProcessed

\* faulty variant: a manual call puts a loaded service back into processing
handleRedirectCallback_restart(outcome) ==
  /\ Len(runs) < MaxRuns
  /\ phase' = IF phase = "Loaded" THEN "ProcessingCallback" ELSE phase
  /\ recordAppState(outcome)
  /\ navigateAfter(outcome)
  /\ runs' = Append(runs, [kind |-> "manual", outcome |-> outcome])
  /\ UNCHANGED <<stateVars, chain, loadingOut, authOut, derivedOut, clientVars,
                 config, clientCalls, factoryVars, refreshedEarly, leftWith, caller, destroyed, lateAppState, atLoaded,
                 popup>>

\* faulty variant: a manual call that does not refresh the state
handleRedirectCallback_norefresh(outcome) ==
  /\ Len(runs) < MaxRuns
  /\ IF outcome = "error"
     THEN setError(CallbackError)
     ELSE UNCHANGED <<stateVars, chain, loadingOut>>
  /\ recordAppState(outcome)
  /\ navigateAfter(outcome)
  /\ runs' = Append(runs, [kind |-> "manual", outcome |-> outcome])
  /\ UNCHANGED <<authOut, derivedOut, clientVars, phase, config, clientCalls, factoryVars, refreshedEarly, leftWith, caller,
                 destroyed, lateAppState, atLoaded, popup>>

\* handleRedirectCallback(url) called by the application, the exchange having
\* settled: after loading the state is refreshed on success, the error is
\* recorded on failure, and the navigation follows
handleRedirectCallback(outcome) ==
  /\ Len(runs) < MaxRuns
  /\ IF outcome = "error"
     THEN setError(CallbackError)
     ELSE IF isLoadingSubject
          THEN UNCHANGED <<stateVars, chain, loadingOut>>
          ELSE refresh
  /\ recordAppState(outcome)
  /\ navigateAfter(outcome)
  /\ runs' = Append(runs, [kind |-> "manual", outcome |-> outcome])
  /\ UNCHANGED <<authOut, derivedOut, clientVars, phase, config, clientCalls, factoryVars, refreshedEarly, leftWith, caller,
                 destroyed, lateAppState, atLoaded, popup>>

HandleRedirectCallback == \E outcome \in Outcomes : handleRedirectCallback(outcome)

\* ngOnDestroy(): the startup sequence is unsubscribed
Destroy ==
  /\ ~destroyed
  /\ destroyed' = TRUE
  /\ UNCHANGED <<stateVars, chain, authOut, derivedOut, loadingOut, clientVars,
                 phase, config, clientCalls, factoryVars, refreshedEarly, leftWith, runs, navigated, caller, appStateOut,
                 atLoaded, popup>>

\* faulty variant: the late resolution of a destroyed service ends loading
LateSettle_loads ==
  /\ destroyed
  /\ phase \in {"CheckingSession", "ProcessingCallback"}
  /\ phase' = "Abandoned"
  /\ setIsLoading(FALSE)
  /\ UNCHANGED <<authOut, derivedOut, clientVars, serviceVars>>

\* the session check or the callback exchange of a destroyed service
\* settles: nobody is subscribed to it any more
LateSettle ==
  /\ destroyed
  /\ phase \in {"CheckingSession", "ProcessingCallback"}
  /\ phase' = "Abandoned"
  /\ UNCHANGED <<stateVars, chain, authOut, derivedOut, loadingOut, clientVars,
                 serviceVars>>

\* appState$.subscribe(...) some time after construction: the value received
\* at once, and how many values had been emitted by then
SubscribeAppState ==
  /\ lateAppState = <<>>
  /\ lateAppState' = <<[val |-> shareReplay(appStates), at |-> Len(appStates)]>>
  /\ UNCHANGED <<stateVars, chain, authOut, derivedOut, loadingOut, clientVars,
                 phase, config, clientCalls, factoryVars, refreshedEarly, leftWith, runs, navigated, caller, destroyed,
                 appStates, atLoaded, popup>>

\* loginWithPopup(options, config) called by the application: the client's
\* loginWithPopup is invoked and its popup is open
LoginWithPopup ==
  /\ phase = "Loaded"
  /\ popup = "none"
  /\ popup' = "open"
  /\ UNCHANGED <<stateVars, chain, authOut, derivedOut, loadingOut, clientVars,
                 phase, config, clientCalls, factoryVars, refreshedEarly, leftWith, runs, navigated, caller, destroyed,
                 appStateOut, atLoaded>>

\* the client's loginWithPopup has resolved: the state is refreshed
PopupResolved ==
  /\ popup = "open"
  /\ popup' = "resolved"
  /\ refresh
  /\ UNCHANGED <<authOut, derivedOut, clientVars, phase, config, clientCalls, factoryVars, refreshedEarly, leftWith,
                 runs, navigated, caller, destroyed, appStateOut, atLoaded>>

TokenOps == {"getAccessTokenSilently", "getAccessTokenWithPopup"}

\* getAccessTokenSilently / getAccessTokenWithPopup, the client's call having
\* settled: a token is recorded and handed to the caller; an error is
\* recorded on the error channel and thrown to the caller
getAccessToken(op, ok, val) ==
  /\ IF ok THEN setAccessToken(val) ELSE setError(val)
  /\ caller' = <<[op |-> op, ok |-> ok, val |-> val]>>
  /\ UNCHANGED <<authOut, derivedOut, clientVars, phase, config, clientCalls, factoryVars, refreshedEarly, leftWith,
                 runs, navigated, destroyed, appStateOut, atLoaded, popup>>

GetAccessToken ==
  \E op \in TokenOps, ok \in BOOLEAN :
    \E val \in (IF ok THEN Tokens ELSE Errors) : getAccessToken(op, ok, val)

\* logout(options): with localOnly the state is refreshed and the client's
\* logout is not invoked; otherwise the client's logout is invoked. What the
\* client answers afterwards is the environment's (ClientChange).
logout(localOnly) ==
  /\ IF localOnly
     THEN refresh /\ UNCHANGED clientVars
     ELSE /\ clientLogout' = TRUE
          /\ UNCHANGED <<stateVars, chain, loadingOut, clientAuth>>
  /\ UNCHANGED <<authOut, derivedOut, phase, serviceVars>>

Logout == \E localOnly \in BOOLEAN : logout(localOnly)

(* --------------------------- specifications --------------------------- *)
Next ==
  \/ SetIsLoading
  \/ Refresh
  \/ SetAccessToken
  \/ SetError
  \/ SubscribeAuth
  \/ UnsubscribeAuth
  \/ SubscribeDerived
  \/ ResolveAuthCheck
  \/ ResolveDerivedCheck
  \/ RejectAuthCheck
  \/ RejectDerivedCheck
  \/ ResolveLookup
  \/ ClientChange

Spec == Init /\ [][Next]_vars

\* the error channel of AuthState, next to its loading flag
NextErrors ==
  \/ SetEitherError
  \/ SubscribeError
  \/ LateSubscribeError
  \/ SetIsLoading
  \/ SetAccessToken

SpecErrors == Init /\ [][NextErrors]_vars

\* the token trigger of AuthState: tokens recorded while isAuthenticated$
\* is subscribed
NextTrigger ==
  \/ SetAccessToken
  \/ SetIsLoading
  \/ SubscribeAuth
  \/ ResolveAuthCheck

SpecTrigger == Init /\ [][NextTrigger]_vars

\* the client factory and the configuration it reads
NextClient ==
  \/ SetClientConfig
  \/ CreateClient

SpecClient == Init /\ [][NextClient]_vars

\* AuthState with refresh() calls made before its chains start
NextRefresh ==
  \/ EarlyRefresh
  \/ Refresh
  \/ SetIsLoading
  \/ SubscribeAuth
  \/ SubscribeDerived
  \/ ResolveAuthCheck
  \/ ResolveDerivedCheck
  \/ ClientChange

SpecRefresh == Init /\ [][NextRefresh]_vars

\* isAuthenticated$ with a subscriber that leaves and one that comes later
NextShare ==
  \/ SubscribeAuth
  \/ LeaveAuth
  \/ SetIsLoading
  \/ Refresh
  \/ SetAccessToken
  \/ ResolveAuthCheck
  \/ ClientChange

SpecShare == Init /\ [][NextShare]_vars

\* two AuthState instances side by side
NextTwo ==
  \/ SetIsLoading
  \/ Refresh
  \/ SetAccessToken
  \/ SetError
  \/ SubscribeAuth
  \/ ResolveAuthCheck
  \/ OtherSubscribe
  \/ OtherSetIsLoading
  \/ OtherRefresh
  \/ OtherSetAccessToken
  \/ OtherSetError

SpecTwo == Init /\ [][NextTwo]_vars

NextService ==
  \/ SessionChecked
  \/ CallbackProcessed
  \/ Logout
  \/ SubscribeAuth
  \/ UnsubscribeAuth
  \/ SubscribeDerived
  \/ SubscribeLoading
  \/ ResolveAuthCheck
  \/ ResolveDerivedCheck
  \/ RejectAuthCheck
  \/ RejectDerivedCheck
  \/ ResolveLookup
  \/ ClientChange

SpecService == InitService /\ [][NextService]_vars

\* token retrieval through the facade, with a subscriber of isAuthenticated$
NextTokens ==
  \/ SessionChecked
  \/ CallbackProcessed
  \/ GetAccessToken
  \/ SubscribeAuth
  \/ UnsubscribeAuth
  \/ ResolveAuthCheck
  \/ RejectAuthCheck
  \/ ClientChange

SpecTokens == InitService /\ [][NextTokens]_vars

\* callback runs, at startup and started by the application, with a
\* subscriber of isAuthenticated$
\* the AuthService with a popup login
NextLogin ==
  \/ SessionChecked
  \/ CallbackProcessed
  \/ LoginWithPopup
  \/ PopupResolved
  \/ SubscribeAuth
  \/ ResolveAuthCheck
  \/ ClientChange

SpecLogin == InitService /\ [][NextLogin]_vars

NextCallback ==
  \/ SessionChecked
  \/ CallbackProcessed
  \/ HandleRedirectCallback
  \/ Destroy
  \/ LateSettle
  \/ SubscribeAppState
  \/ SubscribeAuth
  \/ UnsubscribeAuth
  \/ ResolveAuthCheck
  \/ RejectAuthCheck
  \/ ClientChange

SpecCallback == InitService /\ [][NextCallback]_vars

\* the same service under the assumption that the client's session check
\* and callback exchange settle (with success or with failure)
SpecCallbackFair ==
  /\ InitService
  /\ [][NextCallback]_vars
  /\ WF_vars(SessionChecked)
  /\ WF_vars(CallbackProcessed)

(* ------------------------------- claims ------------------------------- *)
\* C1: a value received from user$ / idTokenClaims$ was computed for the
\* same isAuthenticated() answer as the isAuthenticated$ value the subscriber
\* holds at that moment.
C1_SameEvaluation ==
  (derivedSeen # <<>> /\ flagAt # <<>>) => Last(derivedSeen).ans = flagAt[1]

\* C2: a chain never delivers the answer of an earlier-queued check after the
\* answer of a later-queued one: the value delivered last belongs to the
\* newest check delivered so far.
C2_QueueOrder ==
  \A c \in Chains : chain[c].fed # <<>> => chain[c].fed[1].id = chain[c].maxFed

\* C3: within one chain at most one isAuthenticated() check is in flight.
C3_OneInFlight ==
  \A c \in Chains : Len(chain[c].pending) <= 1

C5_LoadingSequence ==
  /\ loadingSeen = IF phase = "Loaded" THEN <<TRUE, FALSE>> ELSE <<TRUE>>
  /\ (lateLoading # <<>> /\ lateLoading[1].at >= 2) => lateLoading[1].val = FALSE

\* the startup has settled and a subscriber attached afterwards
C5_Witness ==
  /\ phase = "Loaded"
  /\ lateLoading # <<>>
  /\ lateLoading[1].at = 2

NeverLoaded == \A i \in 1..Len(loadingSeen) : loadingSeen[i] = TRUE

\* C6: while isLoading has never been false, isAuthenticated$, user$ and
\* idTokenClaims$ have emitted nothing and no isAuthenticated() call was made.
C6_SuppressedWhileLoading ==
  NeverLoaded =>
    /\ isAuthenticated = <<>>
    /\ derivedSeen = <<>>
    /\ \A c \in Chains : chain[c].calls = 0 /\ ~chain[c].started

\* both chains are subscribed, a token was recorded and setIsLoading(true)
\* was called, all during loading
C6_Witness ==
  /\ NeverLoaded
  /\ Len(loadingSeen) >= 2
  /\ accessToken # NoValue
  /\ \A c \in Chains : chain[c].sub

NoRepeat(s) == \A i \in 1..(Len(s) - 1) : s[i] # s[i + 1]

\* C7: neither the subscriber of isAuthenticated$ nor the replay buffer ever
\* receives the same boolean twice in a row.
C7_NoRepeatedValue ==
  NoRepeat(authSeen) /\ NoRepeat(isAuthenticated)

\* two checks have been evaluated for an attached subscriber and only one
\* value was emitted: the second answer repeated the first
C7_Witness ==
  /\ authSub
  /\ chain["auth"].calls = 2
  /\ chain["auth"].pending = <<>>
  /\ Len(isAuthenticated) = 1
  /\ authSeen = isAuthenticated

\* C8: a subscriber attaching after a value was emitted receives exactly that
\* value at once, with no isAuthenticated() call and no change of the stream,
\* and the replayed value changes only in a step that evaluates a check.
C8_ReplayOnSubscribe ==
  [][/\ (~authSub /\ authSub' /\ isAuthenticated # <<>>) =>
          /\ authSeen' = <<Last(isAuthenticated)>>
          /\ chain' = chain
          /\ isAuthenticated' = isAuthenticated
     /\ (isAuthenticated' # isAuthenticated) =>
          Len(chain'["auth"].pending) < Len(chain["auth"].pending)]_vars

\* a subscriber attached after two emissions holds the replayed value while
\* the client answers the opposite and no check is pending
C8_Witness ==
  /\ authSub
  /\ Len(isAuthenticated) = 2
  /\ Len(authSeen) = 1
  /\ authSeen[1] # clientAuth
  /\ chain["auth"].pending = <<>>

\* C9: a logout({localOnly: true}) of an authenticated session leaves
\* isAuthenticated$ holding false when the call returns, and does not invoke
\* the client's logout.
C9_LocalLogoutSynchronous ==
  [][(logout(TRUE) /\ isAuthenticated # <<>> /\ Last(isAuthenticated) = TRUE) =>
       (Last(isAuthenticated') = FALSE /\ clientLogout' = clientLogout)]_vars

\* C10: when the initial check answered false and the check of a token
\* recorded later answered true, isAuthenticated$ emitted exactly false, true.
C10_Scenario ==
  LET a == chain["auth"]
  IN /\ a.calls = 2
     /\ a.pending = <<>>
     /\ a.fed # <<>>
     /\ a.fed[1].id = 2
     /\ a.fed[1].origin = "token"
     /\ a.fed[1].ans = TRUE
     /\ isAuthenticated # <<>>
     /\ isAuthenticated[1] = FALSE

C10_FalseThenTrue ==
  C10_Scenario => isAuthenticated = <<FALSE, TRUE>>

\* the scenario has happened
C10_Witness ==
  C10_Scenario /\ accessToken # NoValue /\ authSub /\ authSeen = <<FALSE, TRUE>>

\* C11: every value the user$ / idTokenClaims$ chain's trigger has fired,
\* repeated answers included, has been emitted to the subscriber or is held
\* by concatMap (its lookup running, or waiting for its turn): none is dropped
\* and none is emitted twice.
C11_OnePerFiring ==
  LET d == chain["derived"]
  IN Len(derivedSeen) + Len(concat.active) + Len(concat.buffer)
       = d.calls - Len(d.pending)

\* two firings with the answer true have each produced a queried profile
C11_Witness ==
  /\ kind = "user"
  /\ Len(derivedSeen) = 2
  /\ \A i \in 1..2 : derivedSeen[i].ans = TRUE /\ derivedSeen[i].val = "profile"
  /\ derivedSeen[1].id # derivedSeen[2].id

\* C12: a firing whose answer is false yields null and no client lookup; a
\* lookup runs, and a client-sourced value is emitted, only for the answer true.
C12_NullWhenUnauthenticated ==
  /\ \A i \in 1..Len(derivedSeen) :
       derivedSeen[i].ans = FALSE => derivedSeen[i].val = "null"
  /\ \A i \in 1..Len(concat.active) : concat.active[i].ans = TRUE

\* the subscriber has received null for a false answer and claims for a true one
C12_Witness ==
  /\ kind = "claims"
  /\ \E i, j \in 1..Len(derivedSeen) :
       /\ derivedSeen[i].ans = FALSE /\ derivedSeen[i].val = "null"
       /\ derivedSeen[j].ans = TRUE /\ derivedSeen[j].val = "claims"

\* C13: when an isAuthenticated() check of the isAuthenticated$ chain fails,
\* the stream emits nothing, keeps its value for existing and new subscribers
\* and stays live (subscribers stay attached, the chain keeps evaluating).
C13_FailureKeepsStreamLive ==
  [][RejectAuthCheck =>
       /\ isAuthenticated' = isAuthenticated
       /\ authSub' = authSub
       /\ authSeen' = authSeen
       /\ chain'["auth"].sub /\ chain'["auth"].started]_vars

\* C14: when an isAuthenticated() check fails, the error is recorded on the
\* error channel: error$ holds that error afterwards.
C14_FailureRecorded ==
  [][(RejectAuthCheck \/ RejectDerivedCheck) => errorSubject' = CheckError]_vars

\* C15: a token retrieval that fails puts its error on error$ and hands the
\* same error to the caller; one that succeeds hands the token to the caller,
\* records it, and leaves the error channel as it was.
C15_TokenErrorRecordedAndThrown ==
  [][(caller' # caller) =>
       LET c == caller'[1]
       IN IF c.ok
          THEN c.val \in Tokens /\ accessToken' = c.val /\ errorSubject' = errorSubject
          ELSE c.val \in Errors /\ errorSubject' = c.val]_vars

\* a popup token retrieval has failed: the caller and error$ hold the error
C15_Witness ==
  /\ caller # <<>>
  /\ caller[1].op = "getAccessTokenWithPopup"
  /\ ~caller[1].ok
  /\ errorSubject = caller[1].val

\* C16: after a startup callback exchange that failed, error$ holds the
\* error, navigateByUrl has been invoked for that run and isLoading is false.
C16_FailedCallbackStillLoads ==
  \A i \in 1..Len(runs) :
    (runs[i].kind = "startup" /\ runs[i].outcome = "error") =>
      /\ errorSubject = CallbackError
      /\ Len(navigated) >= i
      /\ Len(loadingSeen) >= 2 /\ loadingSeen[2] = FALSE
      /\ isLoadingSubject = FALSE

\* the application was loaded on a callback location and the exchange failed
C16_Witness ==
  /\ config.url = {"code", "state"}
  /\ runs = <<[kind |-> "startup", outcome |-> "error"]>>
  /\ errorSubject = CallbackError
  /\ navigated = <<"/error">>
  /\ isLoadingSubject = FALSE

\* C17: the navigation target of a callback run is the target of the
\* appState when the exchange returned one, else the configured errorPath
\* when the exchange failed and an errorPath is configured, else '/'.
C17_NavigationTarget ==
  \A i \in 1..Len(runs) :
    /\ Len(navigated) >= i
    /\ navigated[i] =
         IF runs[i].outcome = "appStateTarget" THEN "/test-route"
         ELSE IF runs[i].outcome = "error" /\ config.errorPath # NoValue
              THEN config.errorPath
              ELSE "/"

\* a run whose exchange returned an appState with a target has navigated there
C17_Witness ==
  /\ runs # <<>>
  /\ runs[1].outcome = "appStateTarget"
  /\ navigated = <<"/test-route">>

\* the location and the configuration call for a callback run at startup
CallbackExpected ==
  /\ config.skipRedirectCallback = FALSE
  /\ \/ {"code", "state"} \subseteq config.url
     \/ {"error", "state"} \subseteq config.url

StartupRuns == {i \in 1..Len(runs) : runs[i].kind = "startup"}

\* C18: navigateByUrl has been invoked exactly once for each callback run
\* that has settled, failed ones included; a startup has a callback run only
\* when one is called for, so without any callback run there is no navigation.
C18_OneNavigationPerRun ==
  /\ Len(navigated) = Len(runs)
  /\ Cardinality(StartupRuns) =
       IF CallbackExpected /\ phase = "Loaded" THEN 1 ELSE 0

\* a callback run started by the application has failed and has navigated
C18_Witness ==
  /\ phase = "Loaded"
  /\ runs = <<[kind |-> "manual", outcome |-> "error"]>>
  /\ Len(navigated) = 1

\* C19: when the location carries code and state, or error and state, and
\* the callback is not skipped, the startup sequence has invoked the client's
\* handleRedirectCallback exactly once, in the loading state and ever after.
C19_CallbackInvokedOnce ==
  CallbackExpected => clientCalls.handleRedirectCallback = 1

\* an error response was processed by the startup sequence
C19_Witness ==
  /\ config.url = {"error", "state"}
  /\ phase = "Loaded"
  /\ runs # <<>>
  /\ clientCalls.handleRedirectCallback = 1

\* C20: without a callback parameter pair, or with skipRedirectCallback set,
\* the startup sequence never invokes handleRedirectCallback and performs the
\* silent session check.
C20_SessionCheckInstead ==
  ~CallbackExpected =>
    /\ clientCalls.handleRedirectCallback = 0
    /\ clientCalls.checkSession = 1
    /\ StartupRuns = {}

\* a callback location with skipRedirectCallback set has been loaded
C20_Witness ==
  /\ config.url = {"code", "state"}
  /\ config.skipRedirectCallback
  /\ phase = "Loaded"
  /\ clientCalls.checkSession = 1

\* C21: when the session check or the callback exchange of the startup
\* sequence settles, with success or with failure, and the service is not
\* destroyed, isLoading eventually becomes false.
C21_EventuallyLoaded == <>(destroyed \/ ~isLoadingSubject)

\* a failed callback exchange has settled and loading has ended
C21_Witness ==
  /\ ~destroyed
  /\ ~isLoadingSubject
  /\ loadingSeen = <<TRUE, FALSE>>
  /\ runs # <<>>
  /\ runs[1].kind = "startup"
  /\ runs[1].outcome = "error"

\* C22: a service destroyed before its session check or callback exchange
\* resolved never ends loading: isLoading$ has shown only true, also after
\* the late resolution, and the second instance is left as it was.
C22_DestroyedNeverLoads ==
  destroyed /\ phase # "Loaded" =>
    /\ isLoadingSubject
    /\ loadingSeen = <<TRUE>>
    /\ isLoading = <<TRUE>>
    /\ other = NewState

\* the exchange of a destroyed service has resolved
C22_Witness ==
  /\ destroyed
  /\ phase = "Abandoned"
  /\ config.url = {"code", "state"}
  /\ ~config.skipRedirectCallback

\* C23: on the callback path of the startup sequence the exchange settles,
\* then the error or the appState is recorded and the navigation requested,
\* and only then loading ends: whoever sees isLoading = false finds the
\* run's navigation requested, its error on the error channel and its
\* appState on appState$.
C23_LoadedLast ==
  CallbackExpected /\ FALSE \in {loadingSeen[i] : i \in 1..Len(loadingSeen)} =>
    /\ clientCalls.handleRedirectCallback = 1
    /\ atLoaded # <<>>
    /\ \E i \in 1..Len(runs) :
         /\ runs[i].kind = "startup"
         /\ Len(atLoaded[1].navigated) = i
         /\ runs[i].outcome = "error" => atLoaded[1].error = CallbackError
         /\ runs[i].outcome \in {"appState", "appStateTarget"} =>
              atLoaded[1].appState = <<runs[i].outcome>>

\* a callback with an appState has been processed by the startup sequence
C23_Witness ==
  /\ CallbackExpected
  /\ loadingSeen = <<TRUE, FALSE>>
  /\ runs # <<>>
  /\ runs[1] = [kind |-> "startup", outcome |-> "appStateTarget"]
  /\ atLoaded # <<>>
  /\ atLoaded[1].appState = <<"appStateTarget">>

\* C24: a service takes one of the paths construction -> ProcessingCallback
\* -> Loaded or construction -> CheckingSession -> Loaded: its startup has
\* invoked exactly one of handleRedirectCallback and checkSession, and the
\* phase only moves forward, a manual handleRedirectCallback included (a
\* destroyed service stops where it is).
C24_ForwardOnly ==
  /\ [](/\ clientCalls.handleRedirectCallback + clientCalls.checkSession = 1
        /\ phase = "ProcessingCallback" => clientCalls.handleRedirectCallback = 1
        /\ phase = "CheckingSession" => clientCalls.checkSession = 1)
  /\ [][/\ clientCalls' = clientCalls
        /\ phase' # phase =>
             /\ phase \in {"CheckingSession", "ProcessingCallback"}
             /\ \/ phase' = "Loaded" /\ ~destroyed
                \/ phase' = "Abandoned" /\ destroyed]_vars

\* a loaded service, started by the session check, after a manual callback
C24_Witness ==
  /\ phase = "Loaded"
  /\ clientCalls.checkSession = 1
  /\ runs # <<>>
  /\ runs[1].kind = "manual"
  /\ ~isLoadingSubject

\* the runs whose exchange returned an appState
RunsWithAppState ==
  SelectSeq(runs, LAMBDA r : r.outcome \in {"appState", "appStateTarget"})

\* C25: appState$ has emitted the appState of every run whose exchange
\* returned one, once each and in order, and nothing for the other runs; a
\* subscriber attaching later receives the latest of them at once.
C25_AppStateReplayed ==
  /\ Len(appStates) = Len(RunsWithAppState)
  /\ \A i \in 1..Len(appStates) : appStates[i] = RunsWithAppState[i].outcome
  /\ lateAppState # <<>> =>
       lateAppState[1].val = IF lateAppState[1].at = 0 THEN <<>>
                             ELSE <<appStates[lateAppState[1].at]>>

\* the startup's exchange returned an appState before anybody subscribed
C25_Witness ==
  /\ runs # <<>>
  /\ runs[1] = [kind |-> "startup", outcome |-> "appState"]
  /\ lateAppState = <<[val |-> <<"appState">>, at |-> 1]>>

\* C26: an operation on one AuthState instance changes nothing of another:
\* a step that changes the second instance leaves the subjects, the chains
\* and everything the streams of the first have emitted as they were, and a
\* step that changes the first leaves the second as it was.
C26_InstancesIsolated ==
  [][/\ other' # other => UNCHANGED firstInstance
     /\ firstInstance' # firstInstance => other' = other]_vars

\* both instances have been operated on and differ in every subject
C26_Witness ==
  /\ isLoadingSubject /\ ~other.isLoadingSubject
  /\ accessToken = "t1" /\ other.accessToken = "t2"
  /\ errorSubject = NoValue /\ other.errorSubject # NoValue
  /\ chain["auth"].sub /\ ~chain["auth"].started
  /\ other.chain.started /\ other.chain.calls = 2

\* C27: error$ has no initial value and replays the most recent error only:
\* a subscriber never receives anything but errors given to setError, the
\* first one receives them in order, and one attaching later receives at
\* once exactly the error of the last setError call, or nothing when there
\* was none.
C27_ErrorReplay ==
  errorSub.first # <<>> =>
    LET seen == errorSub.first[1]
    IN /\ \A i \in 1..Len(seen) : seen[i] \in TwoErrors
       /\ seen # <<>> => Last(seen) = errorSubject
       /\ errorSub.late # <<>> =>
            errorSub.late[1].val =
              IF errorSub.late[1].at = 0 THEN <<>>
              ELSE <<seen[errorSub.late[1].at]>>

\* e1 then e2 were recorded, then a subscriber attached and received e2
C27_Witness ==
  /\ errorSub.first = <<(<<"e1", "e2">>)>>
  /\ errorSub.late = <<[val |-> <<"e2">>, at |-> 2]>>

\* C28: recording an error touches the error channel only: the step that
\* changes the recorded error leaves the loading flag, the token, the
\* trigger chains (no isAuthenticated() call is started) and everything
\* isLoading$, isAuthenticated$, user$ and idTokenClaims$ have emitted as
\* they were.
C28_ErrorChannelOnly ==
  [][errorSubject' # errorSubject =>
       UNCHANGED <<isLoadingSubject, accessToken, chain, authOut, derivedOut,
                   loadingOut>>]_vars

\* an error was recorded while isAuthenticated$ was live: one check only
C28_Witness ==
  /\ errorSubject \in Errors
  /\ authSub
  /\ ~isLoadingSubject
  /\ chain["auth"].started
  /\ chain["auth"].calls = 1
  /\ isAuthenticated # <<>>

TokenSeqs == UNION {[1..n -> Tokens] : n \in 0..MaxTokens}

\* the tokens of ts that differ from the one recorded just before them
Changes(before, ts) ==
  {i \in 1..Len(ts) : ts[i] # (IF i = 1 THEN before ELSE ts[i - 1])}

\* C29: a recorded token fires the token trigger if and only if it differs
\* from the token recorded just before it (the first one always does): a
\* setAccessToken step starts one check in a started chain when the token
\* changes and none when it does not, and any sequence of tokens starts as
\* many checks as it has changes (A, A one; A, B, A three).
C29_FiresOnChange ==
  /\ [](\A c \in Chains : chain[c].started =>
          /\ chain[c].current = accessToken
          /\ \A ts \in TokenSeqs :
               OnTokens(chain[c], ts).calls =
                 chain[c].calls + Cardinality(Changes(accessToken, ts)))
  /\ [][\A c \in Chains : chain[c].started /\ chain'[c].started =>
          IF accessToken' # accessToken
          THEN /\ chain'[c].calls = chain[c].calls + 1
               /\ Last(chain'[c].pending).origin = "token"
          ELSE chain'[c].calls > chain[c].calls =>
                 Last(chain'[c].pending).origin # "token"]_vars

\* the first token after the initial check has fired the trigger
C29_Witness ==
  /\ chain["auth"].started
  /\ accessToken = "t1"
  /\ chain["auth"].calls = 2
  /\ chain["auth"].pending # <<>>
  /\ Last(chain["auth"].pending) = [id |-> 2, origin |-> "token", ans |-> clientAuth]

\* C30: after loading, a loginWithPopup that resolves makes the state
\* re-evaluate, and not before it resolves: calling it leaves the trigger
\* chains as they are; its resolution starts one more isAuthenticated()
\* query in the live chain, asking the client as it is then; and whenever
\* a query resolves, isAuthenticated$ holds its answer as its latest value.
C30_PopupRefreshes ==
  [][/\ popup' = "open" /\ popup = "none" => chain' = chain
     /\ popup' = "resolved" /\ popup = "open" /\ chain["auth"].started =>
          /\ chain'["auth"].calls = chain["auth"].calls + 1
          /\ Last(chain'["auth"].pending) =
               [id |-> chain["auth"].calls + 1, origin |-> "refresh",
                ans |-> clientAuth]
     /\ Len(chain'["auth"].pending) < Len(chain["auth"].pending) =>
          /\ isAuthenticated' # <<>>
          /\ \E i \in 1..Len(chain["auth"].pending) :
               /\ chain'["auth"].pending = RemoveAt(chain["auth"].pending, i)
               /\ Last(isAuthenticated') = chain["auth"].pending[i].ans]_vars

\* signed out at startup, signed in through the popup: isAuthenticated$ has
\* emitted false, then, from the query after the popup, true
C30_Witness ==
  /\ popup = "resolved"
  /\ phase = "Loaded"
  /\ authSub
  /\ chain["auth"].calls = 2
  /\ chain["auth"].pending = <<>>
  /\ isAuthenticated = <<FALSE, TRUE>>
  /\ authSeen = <<FALSE, TRUE>>

\* C31: a manual handleRedirectCallback after loading runs the exchange once
\* and then refreshes the state: the step records one manual run, starts one
\* more isAuthenticated() query in the live chain, asking the client as it
\* is after the exchange, and leaves isLoading as it was.
C31_ManualCallbackRefreshes ==
  [][/\ Len(runs') > Len(runs)
     /\ Last(runs').kind = "manual"
     /\ Last(runs').outcome # "error"
     /\ phase = "Loaded"
     =>
     /\ runs' = Append(runs, Last(runs'))
     /\ isLoadingSubject' = isLoadingSubject
     /\ loadingSeen' = loadingSeen
     /\ chain["auth"].started =>
          /\ chain'["auth"].calls = chain["auth"].calls + 1
          /\ Last(chain'["auth"].pending) =
               [id |-> chain["auth"].calls + 1, origin |-> "refresh",
                ans |-> clientAuth]]_vars

\* the initial check answered false, the query after the manual exchange
\* true: isAuthenticated$ has emitted false, then true
C31_Witness ==
  /\ phase = "Loaded"
  /\ runs # <<>>
  /\ runs[1].kind = "manual"
  /\ runs[1].outcome # "error"
  /\ loadingSeen = <<TRUE, FALSE>>
  /\ chain["auth"].pending = <<>>
  /\ isAuthenticated = <<FALSE, TRUE>>
  /\ authSeen = <<FALSE, TRUE>>

\* C32: createClient without a configuration throws 'Configuration must be
\* specified' and constructs no client; with a configuration it throws
\* nothing and returns one client, built from that configuration.
C32_ConfigRequired ==
  \A i \in 1..Len(created) :
    LET call == created[i]
    IN IF call.found = <<>>
       THEN /\ call.outcome.thrown = ConfigError
            /\ call.outcome.client = <<>>
       ELSE /\ call.outcome.thrown = NoValue
            /\ Len(call.outcome.client) = 1
            /\ call.outcome.client[1].client_id = call.found[1].clientId
            /\ call.outcome.client[1].domain = call.found[1].domain

\* a call without a configuration, then one with a configuration
C32_Witness ==
  /\ Len(created) = 2
  /\ created[1].found = <<>>
  /\ created[1].outcome.thrown = ConfigError
  /\ created[2].found # <<>>
  /\ created[2].outcome.client # <<>>

\* C33: a started chain calls isAuthenticated() once when it starts, once
\* for each refresh and once for each firing of the token trigger, and for
\* nothing else: a chain that starts makes the initial call (and one for a
\* replayed token); a step of a started chain adds at most one call, for a
\* token exactly when the recorded token changes, for a refresh with the
\* token and the scan's state untouched; setIsLoading and setError add none.
C33_OneCallPerTrigger ==
  [][\A c \in Chains :
       /\ ~chain[c].started /\ chain'[c].started =>
            /\ chain'[c].calls = IF accessToken = NoValue THEN 1 ELSE 2
            /\ chain'[c].pending[1].origin = "initial"
       /\ chain[c].started /\ chain'[c].started =>
            /\ chain'[c].calls \in {chain[c].calls, chain[c].calls + 1}
            /\ chain'[c].calls = chain[c].calls + 1 =>
                 LET new == Last(chain'[c].pending)
                 IN /\ new.id = chain'[c].calls
                    /\ new.origin \in {"token", "refresh"}
                    /\ new.origin = "token" <=> accessToken' # accessToken
                    /\ new.origin = "refresh" =>
                         chain'[c].current = chain[c].current
                    /\ isLoadingSubject' = isLoadingSubject
                    /\ errorSubject' = errorSubject
            /\ accessToken' # accessToken =>
                 chain'[c].calls = chain[c].calls + 1]_vars

\* a chain that made its initial call and one call for a refresh
C33_Witness ==
  /\ chain["auth"].started
  /\ accessToken = NoValue
  /\ chain["auth"].calls = 2
  /\ Len(chain["auth"].pending) = 2
  /\ chain["auth"].pending[1].origin = "initial"
  /\ chain["auth"].pending[2].origin = "refresh"

C35_TokenReplayedAtStart ==
  [][\A c \in Chains :
       ~chain[c].started /\ chain'[c].started =>
         /\ accessToken' = accessToken
         /\ chain'[c].current = accessToken
         /\ IF accessToken = NoValue
            THEN /\ chain'[c].calls = 1
                 /\ Len(chain'[c].pending) = 1
            ELSE /\ chain'[c].calls = 2
                 /\ Len(chain'[c].pending) = 2
                 /\ chain'[c].pending[1].origin = "initial"
                 /\ chain'[c].pending[2].origin = "token"]_vars

\* a token was recorded, then user$ / idTokenClaims$ was subscribed to: two
\* checks, both resolved, two values received
C35_Witness ==
  /\ accessToken # NoValue
  /\ kind # NoValue
  /\ chain["derived"].calls = 2
  /\ chain["derived"].pending = <<>>
  /\ chain["auth"].calls = 0
  /\ concat.active = <<>>
  /\ concat.buffer = <<>>
  /\ Len(derivedSeen) = 2

\* C36: refresh() is not buffered. A chain that is not started has made no
\* call and has none queued, whatever was called before; when it starts it
\* makes the initial check only, answered with what the client holds then,
\* and no check for an earlier refresh.
C36_RefreshNotBuffered ==
  /\ [](\A c \in Chains : ~chain[c].started =>
          chain[c].calls = 0 /\ chain[c].pending = <<>>)
  /\ [][\A c \in Chains :
          ~chain[c].started /\ chain'[c].started /\ accessToken = NoValue =>
            chain'[c].pending =
              <<[id |-> 1, origin |-> "initial", ans |-> clientAuth]>>]_vars

\* refresh() was called before the chain started; the chain has made its
\* initial check, which has resolved, and nothing else
C36_Witness ==
  /\ refreshedEarly
  /\ chain["auth"].started
  /\ chain["auth"].calls = 1
  /\ chain["auth"].pending = <<>>
  /\ Len(isAuthenticated) = 1

\* C37: a chain starts on the first isLoading = false it sees and is never
\* restarted. A setIsLoading step leaves a started chain exactly as it was,
\* whatever the value; a started chain stays started while it is
\* subscribed; and with isLoading true again it still evaluates triggers
\* (a refresh would add its call) and still emits: a check that resolves
\* then is delivered, and isAuthenticated$ holds its answer.
C37_StartedOnce ==
  /\ [](\A c \in Chains : chain[c].started /\ isLoadingSubject =>
          OnRefresh(chain[c]).calls = chain[c].calls + 1)
  /\ [][\A c \in Chains : chain[c].started =>
          /\ loadingSeen' # loadingSeen => chain'[c] = chain[c]
          /\ chain'[c].sub => chain'[c].started
          /\ (/\ isLoadingSubject
              /\ chain'[c].started
              /\ Len(chain'[c].pending) < Len(chain[c].pending)) =>
               /\ chain'[c].fed # <<>>
               /\ \E i \in 1..Len(chain[c].pending) :
                    /\ chain'[c].pending = RemoveAt(chain[c].pending, i)
                    /\ chain'[c].fed[1].ans = chain[c].pending[i].ans
                    /\ c = "auth" =>
                         Last(isAuthenticated') = chain[c].pending[i].ans]_vars

\* loading ended, the chain started, loading was set again: the chain has
\* made a second call and isAuthenticated$ has emitted twice
C37_Witness ==
  /\ loadingSeen = <<TRUE, FALSE, TRUE>>
  /\ isLoadingSubject
  /\ chain["auth"].started
  /\ chain["auth"].calls = 2
  /\ chain["auth"].pending = <<>>
  /\ Len(isAuthenticated) = 2

\* C38: the source of isAuthenticated$ stays subscribed when its last
\* subscriber leaves: the leaving changes neither the chain nor the replayed
\* value; without a subscriber the chain still evaluates triggers (a refresh
\* would add its call) and a check that resolves still updates the replayed
\* value; a subscriber attaching later receives the value replayed then.
C38_SourceKept ==
  /\ [](~authSub /\ chain["auth"].started =>
          /\ chain["auth"].sub
          /\ OnRefresh(chain["auth"]).calls = chain["auth"].calls + 1)
  /\ [][/\ authSub /\ ~authSub' =>
             chain' = chain /\ isAuthenticated' = isAuthenticated
        /\ (/\ ~authSub /\ ~authSub'
            /\ Len(chain'["auth"].pending) < Len(chain["auth"].pending)) =>
             \E i \in 1..Len(chain["auth"].pending) :
               /\ chain'["auth"].pending = RemoveAt(chain["auth"].pending, i)
               /\ Last(isAuthenticated') = chain["auth"].pending[i].ans
        /\ ~authSub /\ authSub' /\ chain["auth"].sub =>
             authSeen' = shareReplay(isAuthenticated)]_vars

\* the subscriber left holding false; a refresh was evaluated meanwhile; the
\* subscriber that attached afterwards received true
C38_Witness ==
  /\ leftWith = <<FALSE>>
  /\ authSub
  /\ authSeen = <<TRUE>>
  /\ isAuthenticated = <<FALSE, TRUE>>
  /\ chain["auth"].calls = 2

\* the checks whose answers have arrived at concatMap, in its order: those
\* emitted for, the one looked up now, those waiting
Arrived ==
  LET all == derivedSeen \o concat.active \o concat.buffer
  IN [i \in 1..Len(all) |-> all[i].id]

\* C39: within one user$ / idTokenClaims$ subscription the lookups are
\* sequential and keep the order of arrival. At most one lookup is in
\* flight, and answers wait only behind one; an answer arriving during a
\* lookup starts no lookup and emits nothing, it is queued last; values are
\* emitted in the order of arrival, so a null for a later false answer never
\* precedes the profile of an earlier true answer.
C39_LookupsInOrder ==
  /\ [](/\ Len(concat.active) <= 1
        /\ concat.buffer # <<>> => concat.active # <<>>
        /\ \A i \in 1..Len(concat.active) : concat.active[i].ans)
  /\ [][kind # NoValue /\ kind' = kind =>
          /\ \/ Arrived' = Arrived
             \/ \E p \in {chain["derived"].pending[i] :
                             i \in 1..Len(chain["derived"].pending)} :
                  Arrived' = Append(Arrived, p.id)
          /\ Len(derivedSeen') >= Len(derivedSeen)
          /\ SubSeq(derivedSeen', 1, Len(derivedSeen)) = derivedSeen
          /\ (concat.active # <<>> /\ Arrived' # Arrived) =>
               /\ derivedSeen' = derivedSeen
               /\ concat'.active = concat.active
               /\ Len(concat'.buffer) = Len(concat.buffer) + 1]_vars

\* a false answer arrived during the lookup for a true answer: it waits,
\* nothing has been emitted
C39_Witness ==
  /\ kind = "user"
  /\ derivedSeen = <<>>
  /\ Len(concat.active) = 1
  /\ concat.active[1].val = "profile"
  /\ Len(concat.buffer) = 1
  /\ ~concat.buffer[1].ans

====
